---- MODULE Spec2Model ----
(***************************************************************************)
(* kleeners: regular expression -> epsilon-NFA -> NFA -> DFA -> minimized  *)
(* DFA.  The variables are the fields of pipeline::FullOutput together     *)
(* with the local variables of the three worklist loops (remove_epsilon,   *)
(* nfa_to_dfa, minimize_dfa), which are modelled one loop iteration per    *)
(* step.  Characters are modelled by their rank in the alphabet (1 = 'a',  *)
(* 2 = 'b', ...), so that the ascending order of a BTreeSet<char> is the   *)
(* order of the integers.                                                  *)
(***************************************************************************)
EXTENDS Integers, Sequences, FiniteSets, TLC

VARIABLES pc, ast, enfa, nfa, dfa, mindfa, eps, det, min, ren, word, verdict

vars == <<pc, ast, enfa, nfa, dfa, mindfa, eps, det, min, ren, word, verdict>>

(***************************************************************************)
(* Bounds of the model.                                                    *)
(***************************************************************************)
\* number of distinct characters of the alphabet
NumSyms == 2
\* number of state ids of an input automaton drawn by Init
NumStates == 3
\* number of transitions of an input DFA drawn by Init
MaxTrans == 3
\* number of edges of an input NFA drawn by Init
MaxEdges == 3
\* number of nodes of an input AST drawn by Init
MaxNodes == 5
\* number of distinct characters of an input AST drawn by Init
AstSyms == 3
\* length of the input strings fed to the automata
MaxLen == 4

Alphabet == 1..NumSyms
States == 0..(NumStates - 1)

(***************************************************************************)
(* Helpers on sets and sequences.                                          *)
(***************************************************************************)
Range(f) == {f[x] : x \in DOMAIN f}

Min(S) == CHOOSE x \in S : \A y \in S : x <= y

\* every iteration order a hash-based set with the elements of S can have
Orders(S) == {o \in [1..Cardinality(S) -> S] : \A i, j \in DOMAIN o : i # j => o[i] # o[j]}

\* the ascending iteration order of a BTreeSet / the result of sort_unstable
RECURSIVE Sorted(_)
Sorted(S) == IF S = {} THEN <<>> ELSE <<Min(S)>> \o Sorted(S \ {Min(S)})

\* the subsets of S with at most k members
RECURSIVE BoundedSubsets(_, _)
BoundedSubsets(S, k) ==
    IF k = 0 THEN {{}}
    ELSE LET B == BoundedSubsets(S, k - 1) IN B \cup {T \cup {x} : T \in B, x \in S}

\* all strings over the characters A of length at most n
RECURSIVE Strings(_, _)
Strings(A, n) ==
    IF n = 0 THEN {<<>>}
    ELSE Strings(A, n - 1)
         \cup {Append(w, c) : w \in {v \in Strings(A, n - 1) : Len(v) = n - 1}, c \in A}

\* the input strings of the automata drawn by Init, and of the ASTs
Words == Strings(Alphabet, MaxLen)
AstWords == Strings(1..AstSyms, MaxLen)

(***************************************************************************)
(* dfa/dfa.rs: struct DFA and DFA::accepts.                                *)
(* A DFA is [start, accepts (HashSet), transitions (HashMap of HashMaps)]. *)
(***************************************************************************)
NoDFA == [start |-> 0, accepts |-> {}, transitions |-> <<>>]

\* self.transitions.get(&state).and_then(|m| m.get(&ch))
dfa_get(d, state, ch) ==
    IF state \in DOMAIN d.transitions /\ ch \in DOMAIN d.transitions[state]
    THEN <<d.transitions[state][ch]>>
    ELSE <<>>

\* DFA::accepts with a symbol that has no transition skipped
RECURSIVE accepts_from_skipping(_, _, _)
accepts_from_skipping(d, state, input) ==
    IF input = <<>> THEN state \in d.accepts
    ELSE LET next == dfa_get(d, state, Head(input))
         IN  IF next = <<>> THEN accepts_from_skipping(d, state, Tail(input))
             ELSE accepts_from_skipping(d, next[1], Tail(input))

\* the body of DFA::accepts, started in `state` with `input` left to read
RECURSIVE accepts_from(_, _, _)
accepts_from(d, state, input) ==
    IF input = <<>> THEN state \in d.accepts
    ELSE LET next == dfa_get(d, state, Head(input))
         IN  IF next = <<>> THEN FALSE
             ELSE accepts_from(d, next[1], Tail(input))

DFA_accepts(d, input) == accepts_from(d, d.start, input)

(***************************************************************************)
(* dfa/minimize.rs: minimize_dfa and build_minimized_dfa.                  *)
(***************************************************************************)
\* lines 9-16: every state that appears in the DFA
all_states(d) ==
    {d.start} \cup d.accepts \cup DOMAIN d.transitions
    \cup UNION {Range(d.transitions[s]) : s \in DOMAIN d.transitions}

\* the symbols of the transitions of the start state alone
dfa_symbols_of_start(d) ==
    IF d.start \in DOMAIN d.transitions THEN DOMAIN d.transitions[d.start] ELSE {}

\* lines 19-22: every symbol of a transition (a HashSet<char>, as a set)
dfa_symbols(d) == UNION {DOMAIN d.transitions[s] : s \in DOMAIN d.transitions}

\* lines 25-30
non_accepting(d) == {s \in all_states(d) : s \notin d.accepts}

\* lines 32-38: the initial partition
initial_partitions(d) ==
    (IF non_accepting(d) # {} THEN <<non_accepting(d)>> ELSE <<>>)
    \o (IF d.accepts # {} THEN <<d.accepts>> ELSE <<>>)

\* a work queue seeded with the accepting class alone
initial_work_queue_accepting_only(d) ==
    IF d.accepts # {} THEN <<d.accepts>> ELSE <<>>

\* lines 41-47: the initial work queue
initial_work_queue(d) ==
    (IF non_accepting(d) # {} THEN <<non_accepting(d)>> ELSE <<>>)
    \o (IF d.accepts # {} THEN <<d.accepts>> ELSE <<>>)

\* the states of `splitter` with a transition on `symbol`: the source is
\* looked up in the splitter where the target should be
predecessors_by_source(d, splitter, symbol) ==
    {state \in all_states(d) : dfa_get(d, state, symbol) # <<>> /\ state \in splitter}

\* lines 53-62: the states with a transition on `symbol` into `splitter`
predecessors(d, splitter, symbol) ==
    {state \in all_states(d) :
        LET t == dfa_get(d, state, symbol) IN t # <<>> /\ t[1] \in splitter}

\* the loop over `partitions` with the whole class kept as the second part
\* of a split, not the class without the predecessors
RECURSIVE refine_partitions_overlapping(_, _, _, _, _)
refine_partitions_overlapping(partitions, preds, i, new_partitions, work_queue) ==
    IF i > Len(partitions)
    THEN [partitions |-> new_partitions, work_queue |-> work_queue]
    ELSE LET partition == partitions[i]
             intersection == partition \cap preds
             difference == partition \ preds
         IN  IF intersection # {} /\ difference # {}
             THEN refine_partitions_overlapping(partitions, preds, i + 1,
                      new_partitions \o <<intersection, partition>>,
                      Append(work_queue,
                             IF Cardinality(intersection) <= Cardinality(difference)
                             THEN intersection ELSE difference))
             ELSE refine_partitions_overlapping(partitions, preds, i + 1,
                      Append(new_partitions, partition), work_queue)

\* the loop over `partitions` with a class that is not split pushed on the
\* work queue as well
RECURSIVE refine_partitions_always_push(_, _, _, _, _)
refine_partitions_always_push(partitions, preds, i, new_partitions, work_queue) ==
    IF i > Len(partitions)
    THEN [partitions |-> new_partitions, work_queue |-> work_queue]
    ELSE LET partition == partitions[i]
             intersection == partition \cap preds
             difference == partition \ preds
         IN  IF intersection # {} /\ difference # {}
             THEN refine_partitions_always_push(partitions, preds, i + 1,
                      new_partitions \o <<intersection, difference>>,
                      Append(work_queue,
                             IF Cardinality(intersection) <= Cardinality(difference)
                             THEN intersection ELSE difference))
             ELSE refine_partitions_always_push(partitions, preds, i + 1,
                      Append(new_partitions, partition), Append(work_queue, partition))

\* the loop over `partitions` with only the intersection kept of a class
\* that is split
RECURSIVE refine_partitions_dropping_difference(_, _, _, _, _)
refine_partitions_dropping_difference(partitions, preds, i, new_partitions, work_queue) ==
    IF i > Len(partitions)
    THEN [partitions |-> new_partitions, work_queue |-> work_queue]
    ELSE LET partition == partitions[i]
             intersection == partition \cap preds
             difference == partition \ preds
         IN  IF intersection # {} /\ difference # {}
             THEN refine_partitions_dropping_difference(partitions, preds, i + 1,
                      Append(new_partitions, intersection),
                      Append(work_queue,
                             IF Cardinality(intersection) <= Cardinality(difference)
                             THEN intersection ELSE difference))
             ELSE refine_partitions_dropping_difference(partitions, preds, i + 1,
                      Append(new_partitions, partition), work_queue)

\* lines 71-97: the loop over `partitions`, from index i on
RECURSIVE refine_partitions(_, _, _, _, _)
refine_partitions(partitions, preds, i, new_partitions, work_queue) ==
    IF i > Len(partitions)
    THEN [partitions |-> new_partitions, work_queue |-> work_queue]
    ELSE LET partition == partitions[i]
             intersection == partition \cap preds
             difference == partition \ preds
         IN  IF intersection # {} /\ difference # {}
             THEN refine_partitions(partitions, preds, i + 1,
                      new_partitions \o <<intersection, difference>>,
                      Append(work_queue,
                             IF Cardinality(intersection) <= Cardinality(difference)
                             THEN intersection ELSE difference))
             ELSE refine_partitions(partitions, preds, i + 1,
                      Append(new_partitions, partition), work_queue)

\* the body of the for loop without the push of the smaller part
refine_on_symbol_without_push(d, partitions, work_queue, splitter, symbol) ==
    LET preds == predecessors(d, splitter, symbol)
    IN  IF preds = {}
        THEN [partitions |-> partitions, work_queue |-> work_queue]
        ELSE [partitions |-> refine_partitions(partitions, preds, 1, <<>>, work_queue).partitions,
              work_queue |-> work_queue]

\* lines 51-100: the body of `for &symbol in &symbols` for one symbol
refine_on_symbol(d, partitions, work_queue, splitter, symbol) ==
    LET preds == predecessors(d, splitter, symbol)
    IN  IF preds = {}
        THEN [partitions |-> partitions, work_queue |-> work_queue]
        ELSE refine_partitions(partitions, preds, 1, <<>>, work_queue)

\* lines 114-119: state -> index of its partition (a later insert overwrites)
state_to_partition(partitions) ==
    [s \in UNION Range(partitions) |->
        (CHOOSE i \in DOMAIN partitions :
            s \in partitions[i] /\ \A j \in DOMAIN partitions : s \in partitions[j] => j <= i) - 1]

\* the transitions of the first member copied with their targets as they
\* are, not mapped to the class of the target
class_transitions_unmapped(original, partitions, idx) ==
    LET representative == Min(partitions[idx])
    IN  IF representative \in DOMAIN original.transitions
        THEN original.transitions[representative]
        ELSE <<>>

\* lines 135-154: the transitions of class idx, copied from its first member
class_transitions(original, partitions, idx) ==
    LET stp == state_to_partition(partitions)
        representative == Min(partitions[idx])
    IN  IF representative \in DOMAIN original.transitions
        THEN LET trans_map == original.transitions[representative]
             IN  [symbol \in {c \in DOMAIN trans_map : trans_map[c] \in DOMAIN stp}
                     |-> stp[trans_map[symbol]]]
        ELSE <<>>

\* lines 108-161
build_minimized_dfa(original, partitions) ==
    LET stp == state_to_partition(partitions)
        with_trans == {idx \in DOMAIN partitions :
                          class_transitions(original, partitions, idx) # <<>>}
    IN  [start |-> stp[original.start],
         accepts |-> {stp[a] : a \in original.accepts \cap DOMAIN stp},
         transitions |-> [p \in {idx - 1 : idx \in with_trans}
                             |-> class_transitions(original, partitions, p + 1)]]

\* lines 50-101 as a function: the refinement loop run to its end, `symbols`
\* being the iteration order of the HashSet<char> of this call
RECURSIVE splitter_pass(_, _, _, _, _, _)
splitter_pass(d, symbols, partitions, work_queue, splitter, i) ==
    IF i > Len(symbols)
    THEN [partitions |-> partitions, work_queue |-> work_queue]
    ELSE LET r == refine_on_symbol(d, partitions, work_queue, splitter, symbols[i])
         IN  splitter_pass(d, symbols, r.partitions, r.work_queue, splitter, i + 1)

RECURSIVE refinement_loop(_, _, _, _)
refinement_loop(d, symbols, partitions, work_queue) ==
    IF work_queue = <<>> THEN partitions
    ELSE LET r == splitter_pass(d, symbols, partitions, Tail(work_queue), Head(work_queue), 1)
         IN  refinement_loop(d, symbols, r.partitions, r.work_queue)

\* the partition minimize_dfa ends with
final_partitions(d, symbols) ==
    refinement_loop(d, symbols, initial_partitions(d), initial_work_queue(d))

\* lines 7-105
minimize_dfa(d, symbols) == build_minimized_dfa(d, final_partitions(d, symbols))

(***************************************************************************)
(* nfa/nfa.rs: struct NFA, TransitionLabel, NFA::add_state, NFA::add_edge. *)
(* An NFA is [start, accept (Vec), transitions (HashMap state -> Vec of    *)
(* (label, to))]; a label is Char(c) or Epsilon.                            *)
(***************************************************************************)
Char(c) == <<"Char", c>>
Epsilon == <<"Epsilon">>

\* nfa.transitions.get(&s), an absent key read as no edges
nfa_edges(n, s) == IF s \in DOMAIN n.transitions THEN n.transitions[s] ELSE <<>>

\* NFA::add_state: the new id is the number of entries of the map; insert
\* replaces the entry of that key by an empty Vec when the key is present
add_state(transitions) ==
    [id |-> Cardinality(DOMAIN transitions),
     transitions |-> (Cardinality(DOMAIN transitions) :> <<>>) @@ transitions]

\* the outcome of a call that panics: a value no HashMap<StateID, _> has
\* (its key is not a usize)
Panic == (-1 :> <<>>)

\* NFA::add_edge: get_mut(&from).unwrap() panics when `from` is not a key
add_edge(transitions, from, label, to) ==
    IF from \in DOMAIN transitions /\ transitions # Panic
    THEN [transitions EXCEPT ![from] = Append(@, <<label, to>>)]
    ELSE Panic

\* the char symbols of the edges of an NFA (dfa.rs 29-36, epsilon_elimination.rs 75-82)
nfa_symbols(n) ==
    {e[1][2] : e \in {ed \in UNION {Range(n.transitions[s]) : s \in DOMAIN n.transitions} :
                         ed[1][1] = "Char"}}

(***************************************************************************)
(* dfa/dfa.rs: nfa_to_dfa (subset construction).                           *)
(***************************************************************************)
\* the NFA move without the comparison of the char of the edge with c
dfa_target_any_char(n, subset, c) ==
    {e[2] : e \in {ed \in UNION {Range(nfa_edges(n, s)) : s \in subset} : ed[1][1] = "Char"}}

\* lines 64-77: the NFA move of `subset` on c
dfa_target(n, subset, c) ==
    {e[2] : e \in {ed \in UNION {Range(nfa_edges(n, s)) : s \in subset} : ed[1] = Char(c)}}

\* nfa.accept.iter().any(|a| subset.contains(a))
contains_accept(n, subset) == \E i \in DOMAIN n.accept : n.accept[i] \in subset

\* transitions.entry(dfa_state).or_default().insert(c, target_id)
dfa_insert(transitions, dfa_state, c, target_id) ==
    [s \in DOMAIN transitions \cup {dfa_state} |->
        IF s = dfa_state
        THEN (c :> target_id) @@ (IF s \in DOMAIN transitions THEN transitions[s] ELSE <<>>)
        ELSE transitions[s]]

\* lines 47-56: the locals of nfa_to_dfa when the loop is entered
det_begin(n) ==
    [subset_to_id |-> ({n.start} :> 0),
     id_to_subset |-> <<{n.start}>>,
     queue |-> <<0>>,
     transitions |-> <<>>,
     accepts |-> IF contains_accept(n, {n.start}) THEN {0} ELSE {}]

\* the body of the for loop without the skip of an empty target
det_symbol_with_dead_state(n, st, dfa_state, c) ==
    LET subset == st.id_to_subset[dfa_state + 1]
        target == dfa_target(n, subset, c)
    IN  IF target \in DOMAIN st.subset_to_id
        THEN [st EXCEPT !.transitions =
                  dfa_insert(st.transitions, dfa_state, c, st.subset_to_id[target])]
        ELSE LET new_id == Len(st.id_to_subset)
             IN  [subset_to_id |-> (target :> new_id) @@ st.subset_to_id,
                  id_to_subset |-> Append(st.id_to_subset, target),
                  queue |-> Append(st.queue, new_id),
                  accepts |-> IF contains_accept(n, target)
                              THEN st.accepts \cup {new_id} ELSE st.accepts,
                  transitions |-> dfa_insert(st.transitions, dfa_state, c, new_id)]

\* lines 62-105: the body of `for &c in &symbols` for the symbol c
det_symbol(n, st, dfa_state, c) ==
    LET subset == st.id_to_subset[dfa_state + 1]
        target == dfa_target(n, subset, c)
    IN  IF target = {} THEN st
        ELSE IF target \in DOMAIN st.subset_to_id
        THEN [st EXCEPT !.transitions =
                  dfa_insert(st.transitions, dfa_state, c, st.subset_to_id[target])]
        ELSE LET new_id == Len(st.id_to_subset)
             IN  [subset_to_id |-> (target :> new_id) @@ st.subset_to_id,
                  id_to_subset |-> Append(st.id_to_subset, target),
                  queue |-> Append(st.queue, new_id),
                  accepts |-> IF contains_accept(n, target)
                              THEN st.accepts \cup {new_id} ELSE st.accepts,
                  transitions |-> dfa_insert(st.transitions, dfa_state, c, new_id)]

\* the for loop over the BTreeSet of symbols (ascending), from index i on
RECURSIVE det_for(_, _, _, _, _)
det_for(n, st, dfa_state, symbols, i) ==
    IF i > Len(symbols) THEN st
    ELSE det_for(n, det_symbol(n, st, dfa_state, symbols[i]), dfa_state, symbols, i + 1)

\* one iteration of the while loop with the symbols tried in descending order
det_step_descending(n, st) ==
    LET symbols == Sorted(nfa_symbols(n))
    IN  det_for(n, [st EXCEPT !.queue = Tail(st.queue)], Head(st.queue),
                [k \in 1..Len(symbols) |-> symbols[Len(symbols) + 1 - k]], 1)

\* lines 59-106: one iteration of `while let Some(dfa_state) = queue.pop_front()`
det_step(n, st) ==
    det_for(n, [st EXCEPT !.queue = Tail(st.queue)], Head(st.queue),
            Sorted(nfa_symbols(n)), 1)

\* lines 108-112
det_return(st) == [start |-> 0, accepts |-> st.accepts, transitions |-> st.transitions]

RECURSIVE det_loop(_, _)
det_loop(n, st) == IF st.queue = <<>> THEN st ELSE det_loop(n, det_step(n, st))

\* lines 27-113
nfa_to_dfa(n) == det_return(det_loop(n, det_begin(n)))

(***************************************************************************)
(* nfa/epsilon_elimination.rs: closures, move and remove_epsilon.          *)
(***************************************************************************)
\* the edges of the popped state, the states found marked visited but not
\* put on the queue
RECURSIVE closure_edges_without_enqueue(_, _, _, _)
closure_edges_without_enqueue(edges, i, visited, dq) ==
    IF i > Len(edges) THEN [visited |-> visited, dq |-> dq]
    ELSE IF edges[i][1] = Epsilon /\ edges[i][2] \notin visited
         THEN closure_edges_without_enqueue(edges, i + 1, visited \cup {edges[i][2]}, dq)
         ELSE closure_edges_without_enqueue(edges, i + 1, visited, dq)

\* lines 16-21 / 41-46: the edges of the popped state, from index i on
RECURSIVE closure_edges(_, _, _, _)
closure_edges(edges, i, visited, dq) ==
    IF i > Len(edges) THEN [visited |-> visited, dq |-> dq]
    ELSE IF edges[i][1] = Epsilon /\ edges[i][2] \notin visited
         THEN closure_edges(edges, i + 1, visited \cup {edges[i][2]}, Append(dq, edges[i][2]))
         ELSE closure_edges(edges, i + 1, visited, dq)

\* lines 14-23 / 39-48: while let Some(v) = dq.pop_front()
RECURSIVE closure_bfs(_, _, _)
closure_bfs(n, visited, dq) ==
    IF dq = <<>> THEN visited
    ELSE LET r == closure_edges(nfa_edges(n, Head(dq)), 1, visited, Tail(dq))
         IN  closure_bfs(n, r.visited, r.dq)

\* lines 7-26
epsilon_closure_of_state(n, s) == closure_bfs(n, {s}, <<s>>)

\* the set itself, no epsilon edge followed
epsilon_closure_of_set_identity(n, states) == states

\* lines 29-50; the queue starts with the members of `states` in the order the
\* HashSet yields them, which the returned set does not depend on
epsilon_closure_of_set(n, states) == closure_bfs(n, states, Sorted(states))

\* lines 53-69
move_on_char(n, states, c) ==
    {e[2] : e \in {ed \in UNION {Range(nfa_edges(n, s)) : s \in states} : ed[1] = Char(c)}}

\* lines 138-141: transitions_by_char.entry(c).or_insert_with(HashSet::new).insert(id)
by_char_insert(by_char, c, id) ==
    (c :> ((IF c \in DOMAIN by_char THEN by_char[c] ELSE {}) \cup {id})) @@ by_char

\* the locals when the loop is entered, the first composite state being the
\* start state alone and not its epsilon closure
eps_begin_without_closure(n, symbols) ==
    [symbols |-> symbols,
     state_map |-> (<<n.start>> :> 0),
     next_id |-> 1,
     queue |-> <<{n.start}>>,
     new_transitions |-> (0 :> <<>>),
     transitions_by_char |-> <<>>]

\* lines 85-102: the locals of remove_epsilon when the loop is entered; `symbols`
\* is the iteration order of the HashSet<char> of lines 75-82
eps_begin(n, symbols) ==
    LET start_closure == epsilon_closure_of_state(n, n.start)
    IN  [symbols |-> symbols,
         state_map |-> (Sorted(start_closure) :> 0),
         next_id |-> 1,
         queue |-> <<start_closure>>,
         new_transitions |-> (0 :> <<>>),
         transitions_by_char |-> <<>>]

\* the edge on c to the closure of the set `moved`, looked up in state_map or
\* given a new id
eps_target(n, st, moved, c) ==
    LET target_closure == epsilon_closure_of_set(n, moved)
        target_sorted == Sorted(target_closure)
    IN  IF target_sorted \in DOMAIN st.state_map
        THEN [st EXCEPT !.transitions_by_char =
                  by_char_insert(@, c, st.state_map[target_sorted])]
        ELSE [symbols |-> st.symbols,
              state_map |-> (target_sorted :> st.next_id) @@ st.state_map,
              next_id |-> st.next_id + 1,
              queue |-> Append(st.queue, target_closure),
              new_transitions |-> (st.next_id :> <<>>) @@ st.new_transitions,
              transitions_by_char |-> by_char_insert(st.transitions_by_char, c, st.next_id)]

RECURSIVE eps_members(_, _, _, _, _)
eps_members(n, st, members, c, i) ==
    IF i > Len(members) THEN st
    ELSE eps_members(n, eps_target(n, st, {members[i]}, c), members, c, i + 1)

\* the body of the for loop with one target per moved state, the closure of
\* that state alone, and not one target for the closure of them all
eps_symbol_per_member(n, st, current_closure, c) ==
    eps_members(n, st, Sorted(move_on_char(n, current_closure, c)), c, 1)

\* the body of the for loop without the lookup of the target closure in
\* state_map: every target gets a new id
eps_symbol_without_lookup(n, st, current_closure, c) ==
    LET moved == move_on_char(n, current_closure, c)
        target_closure == epsilon_closure_of_set(n, moved)
        target_sorted == Sorted(target_closure)
    IN  IF moved = {} THEN st
        ELSE [symbols |-> st.symbols,
              state_map |-> (target_sorted :> st.next_id) @@ st.state_map,
              next_id |-> st.next_id + 1,
              queue |-> Append(st.queue, target_closure),
              new_transitions |-> (st.next_id :> <<>>) @@ st.new_transitions,
              transitions_by_char |-> by_char_insert(st.transitions_by_char, c, st.next_id)]

\* lines 113-141: the body of `for &c in &symbols` for the symbol c
eps_symbol(n, st, current_closure, c) ==
    LET moved == move_on_char(n, current_closure, c)
        target_closure == epsilon_closure_of_set(n, moved)
        target_sorted == Sorted(target_closure)
    IN  IF moved = {} THEN st
        ELSE IF target_sorted \in DOMAIN st.state_map
        THEN [st EXCEPT !.transitions_by_char =
                  by_char_insert(@, c, st.state_map[target_sorted])]
        ELSE [symbols |-> st.symbols,
              state_map |-> (target_sorted :> st.next_id) @@ st.state_map,
              next_id |-> st.next_id + 1,
              queue |-> Append(st.queue, target_closure),
              new_transitions |-> (st.next_id :> <<>>) @@ st.new_transitions,
              transitions_by_char |-> by_char_insert(st.transitions_by_char, c, st.next_id)]

\* the for loop over the HashSet of symbols in its iteration order, from i on
RECURSIVE eps_for(_, _, _, _, _)
eps_for(n, st, current_closure, symbols, i) ==
    IF i > Len(symbols) THEN st
    ELSE eps_for(n, eps_symbol(n, st, current_closure, symbols[i]), current_closure,
                 symbols, i + 1)

\* lines 144-152: push the edges of current_id, the chars of transitions_by_char
\* taken in the order `chars` (each set of targets has one member)
RECURSIVE eps_push(_, _, _, _, _)
eps_push(new_transitions, current_id, by_char, chars, i) ==
    IF i > Len(chars) THEN new_transitions
    ELSE eps_push([new_transitions EXCEPT ![current_id] =
                       @ \o [k \in 1..Cardinality(by_char[chars[i]]) |->
                                <<Char(chars[i]), Sorted(by_char[chars[i]])[k]>>]],
                  current_id, by_char, chars, i + 1)

\* lines 105-153: one iteration of `while let Some(current_closure) = queue.pop_front()`
\* up to the end of the for loop over the symbols
eps_step(n, st) ==
    eps_for(n, [st EXCEPT !.queue = Tail(st.queue), !.transitions_by_char = <<>>],
            Head(st.queue), st.symbols, 1)

\* the rest of the iteration: the edges are pushed in the order `chars`
eps_step_push(st, current_closure, chars) ==
    [st EXCEPT !.new_transitions =
        eps_push(st.new_transitions, st.state_map[Sorted(current_closure)],
                 st.transitions_by_char, chars, 1)]

\* lines 156-168: the sorted ids of the closures that hold an original accept
accepting_states(n, state_map) ==
    Sorted({state_map[closure_sorted] : closure_sorted \in
               {cs \in DOMAIN state_map : \E i \in DOMAIN n.accept : n.accept[i] \in Range(cs)}})

\* lines 170-174
eps_return(n, st) ==
    [start |-> 0, accept |-> accepting_states(n, st.state_map),
     transitions |-> st.new_transitions]

\* the members of `order` that are keys of by_char, in the order of `order`
RECURSIVE restrict_order(_, _)
restrict_order(order, keys) ==
    IF order = <<>> THEN <<>>
    ELSE (IF Head(order) \in keys THEN <<Head(order)>> ELSE <<>>)
         \o restrict_order(Tail(order), keys)

\* the loop run to its end.  Every iteration creates its own HashMap
\* transitions_by_char (line 111), with an iteration order of its own:
\* `chars` is a sequence with one order of the chars per iteration left, the
\* first one for the iteration that starts at st
RECURSIVE eps_loop(_, _, _)
eps_loop(n, st, chars) ==
    IF st.queue = <<>> THEN st
    ELSE LET r == eps_step(n, st)
         IN  eps_loop(n, eps_step_push(r, Head(st.queue),
                                       restrict_order(Head(chars),
                                                      DOMAIN r.transitions_by_char)),
                      Tail(chars))

\* lines 73-175: the HashSet of symbols iterates in the order `symbols`, the
\* HashMap transitions_by_char of the k-th iteration of the while loop in
\* the relative order chars[k]
remove_epsilon(n, symbols, chars) == eps_return(n, eps_loop(n, eps_begin(n, symbols), chars))

(***************************************************************************)
(* regex/ast.rs and nfa/thompson.rs: RegexAST and the Thompson             *)
(* construction.  An AST is <<"Char", c>>, <<"Concat", a, b>>,             *)
(* <<"Union", a, b>> or <<"Star", a>>.  build returns the transitions of   *)
(* the NFA under construction together with the fragment of the node.      *)
(***************************************************************************)
\* char_frag with the accept state allocated before the start state
char_frag_accept_first(transitions, c) ==
    LET t == add_state(transitions)
        s == add_state(t.transitions)
    IN  [transitions |-> add_edge(s.transitions, s.id, Char(c), t.id),
         start |-> s.id, accept |-> t.id]

\* Thompson::char_frag
char_frag(transitions, c) ==
    LET s == add_state(transitions)
        t == add_state(s.transitions)
    IN  [transitions |-> add_edge(t.transitions, s.id, Char(c), t.id),
         start |-> s.id, accept |-> t.id]

\* the Concat arm of build, given the fragments of the two operands
concat_frag(transitions, left, right) ==
    [transitions |-> add_edge(transitions, left.accept, Epsilon, right.start),
     start |-> left.start, accept |-> right.accept]

\* the Union arm without the edge s -> right.start
union_frag_left_only(transitions, left, right) ==
    LET s == add_state(transitions)
        t == add_state(s.transitions)
        e1 == add_edge(t.transitions, s.id, Epsilon, left.start)
        e3 == add_edge(e1, left.accept, Epsilon, t.id)
        e4 == add_edge(e3, right.accept, Epsilon, t.id)
    IN  [transitions |-> e4, start |-> s.id, accept |-> t.id]

\* the Union arm of build, given the fragments of the two operands
union_frag(transitions, left, right) ==
    LET s == add_state(transitions)
        t == add_state(s.transitions)
        e1 == add_edge(t.transitions, s.id, Epsilon, left.start)
        e2 == add_edge(e1, s.id, Epsilon, right.start)
        e3 == add_edge(e2, left.accept, Epsilon, t.id)
        e4 == add_edge(e3, right.accept, Epsilon, t.id)
    IN  [transitions |-> e4, start |-> s.id, accept |-> t.id]

\* the Star arm without the skip edge s -> t
star_frag_without_skip(transitions, inner) ==
    LET s == add_state(transitions)
        t == add_state(s.transitions)
        e1 == add_edge(t.transitions, s.id, Epsilon, inner.start)
        e2 == add_edge(e1, inner.accept, Epsilon, inner.start)
        e4 == add_edge(e2, inner.accept, Epsilon, t.id)
    IN  [transitions |-> e4, start |-> s.id, accept |-> t.id]

\* the Star arm without new states: the loop and the skip edge are put on
\* the start and accept states of the operand
star_frag_reusing_inner(transitions, inner) ==
    LET e2 == add_edge(transitions, inner.accept, Epsilon, inner.start)
        e3 == add_edge(e2, inner.start, Epsilon, inner.accept)
    IN  [transitions |-> e3, start |-> inner.start, accept |-> inner.accept]

\* the Star arm with the loop edge led back to the new start state s, not
\* to the start of the operand
star_frag_loop_to_start(transitions, inner) ==
    LET s == add_state(transitions)
        t == add_state(s.transitions)
        e1 == add_edge(t.transitions, s.id, Epsilon, inner.start)
        e2 == add_edge(e1, inner.accept, Epsilon, s.id)
        e3 == add_edge(e2, s.id, Epsilon, t.id)
        e4 == add_edge(e3, inner.accept, Epsilon, t.id)
    IN  [transitions |-> e4, start |-> s.id, accept |-> t.id]

\* the Star arm of build, given the fragment of the operand
star_frag(transitions, inner) ==
    LET s == add_state(transitions)
        t == add_state(s.transitions)
        e1 == add_edge(t.transitions, s.id, Epsilon, inner.start)
        e2 == add_edge(e1, inner.accept, Epsilon, inner.start)
        e3 == add_edge(e2, s.id, Epsilon, t.id)
        e4 == add_edge(e3, inner.accept, Epsilon, t.id)
    IN  [transitions |-> e4, start |-> s.id, accept |-> t.id]

\* Thompson::build
RECURSIVE build(_, _)
build(transitions, node) ==
    IF node[1] = "Char" THEN char_frag(transitions, node[2])
    ELSE IF node[1] = "Concat"
    THEN LET left == build(transitions, node[2])
             right == build(left.transitions, node[3])
         IN  concat_frag(right.transitions, left, right)
    ELSE IF node[1] = "Union"
    THEN LET left == build(transitions, node[2])
             right == build(left.transitions, node[3])
         IN  union_frag(right.transitions, left, right)
    ELSE LET inner == build(transitions, node[2])
         IN  star_frag(inner.transitions, inner)

\* the calls of build that build(transitions, node) makes, itself included:
\* for each, the node, the transitions of the NFA at the call and the
\* returned fragment with the transitions of the NFA at the return
RECURSIVE build_calls(_, _)
build_calls(transitions, node) ==
    {[node |-> node, before |-> transitions, frag |-> build(transitions, node)]}
    \cup (IF node[1] = "Char" THEN {}
          ELSE IF node[1] = "Star" THEN build_calls(transitions, node[2])
          ELSE build_calls(transitions, node[2])
               \cup build_calls(build(transitions, node[2]).transitions, node[3]))

\* Thompson::new().from_ast(ast); the accept state of the root fragment is
\* the one member of NFA::accept
from_ast(node) ==
    LET frag == build(<<>>, node)
    IN  [start |-> frag.start, accept |-> <<frag.accept>>, transitions |-> frag.transitions]

\* nfa::thompson::enfa_from_ast, the entry point pipeline::full_pipeline calls
enfa_from_ast(node) == from_ast(node)

(***************************************************************************)
(* nfa/renumber.rs: renumber_dfs.                                          *)
(***************************************************************************)
\* lines 9-16: the start state gets id 0 and is pushed
ren_begin(n) ==
    [old_to_new |-> (n.start :> 0), stack |-> <<n.start>>, next_id |-> 1]

\* lines 22-28: the for loop over edges.iter().rev(), at edge i going down;
\* a target without an id gets next_id and is pushed
RECURSIVE ren_for(_, _, _)
ren_for(edges, i, l) ==
    IF i = 0 THEN l
    ELSE LET to == edges[i][2]
         IN  IF to \in DOMAIN l.old_to_new
             THEN ren_for(edges, i - 1, l)
             ELSE ren_for(edges, i - 1,
                          [old_to_new |-> l.old_to_new @@ (to :> l.next_id),
                           stack |-> Append(l.stack, to),
                           next_id |-> l.next_id + 1])

\* lines 19-30: one iteration of the while loop: pop, then the for loop
ren_step(n, l) ==
    LET current == l.stack[Len(l.stack)]
        popped == [l EXCEPT !.stack = SubSeq(l.stack, 1, Len(l.stack) - 1)]
        edges == nfa_edges(n, current)
    IN  ren_for(edges, Len(edges), popped)

\* lines 36-41: the edges whose target has a new id, with that id
ren_edges(old_to_new, edges) ==
    LET kept == SelectSeq(edges, LAMBDA e : e[2] \in DOMAIN old_to_new)
    IN  [i \in 1..Len(kept) |-> <<kept[i][1], old_to_new[kept[i][2]]>>]

\* lines 46-50: the accept states that have a new id, with that id
ren_accept(old_to_new, accept) ==
    LET kept == SelectSeq(accept, LAMBDA s : s \in DOMAIN old_to_new)
    IN  [i \in 1..Len(kept) |-> old_to_new[kept[i]]]

\* lines 32-56: the NFA rebuilt with the new numbering
ren_return(n, l) ==
    LET kept == DOMAIN n.transitions \cap DOMAIN l.old_to_new
        old_of(new) == CHOOSE s \in kept : l.old_to_new[s] = new
    IN  [start |-> 0,
         accept |-> ren_accept(l.old_to_new, n.accept),
         transitions |-> [new \in {l.old_to_new[s] : s \in kept} |->
                              ren_edges(l.old_to_new, n.transitions[old_of(new)])]]

\* lines 19-30: the while loop
RECURSIVE ren_loop(_, _)
ren_loop(n, l) == IF l.stack = <<>> THEN l ELSE ren_loop(n, ren_step(n, l))

\* renumber_dfs
renumber_dfs(n) == ren_return(n, ren_loop(n, ren_begin(n)))

(***************************************************************************)
(* The inputs Init draws from.                                             *)
(***************************************************************************)
NoNFA == [start |-> 0, accept |-> <<>>, transitions |-> <<>>]
NoAST == <<"None">>
NoLocals == <<>>
NoWord == <<>>

\* a HashMap<usize, HashMap<char, usize>> with the entries of f, a function
\* on a set of (state, char) pairs, and an entry (possibly empty) per key
dfa_transitions(keys, f) ==
    [s \in keys \cup {k[1] : k \in DOMAIN f} |->
        [c \in {a \in Alphabet : <<s, a>> \in DOMAIN f} |-> f[<<s, c>>]]]

\* the Vec of edges (label, to) of state s: the members of the edge set E
\* that leave s, epsilon edges first, then by char, then by target
edge_slots ==
    [k \in 1..((NumSyms + 1) * NumStates) |->
        <<IF (k - 1) \div NumStates = 0 THEN Epsilon ELSE Char((k - 1) \div NumStates),
          (k - 1) % NumStates>>]

edge_list(E, s) == SelectSeq(edge_slots, LAMBDA e : <<s, e[1], e[2]>> \in E)

Labels == {Epsilon} \cup {Char(c) : c \in Alphabet}

\* every NFA value over States with at most k edges labelled from L
NfaValues(L, k) ==
    {[start |-> s, accept |-> Sorted(acc),
      transitions |-> [q \in keys \cup {e[1] : e \in E} |-> edge_list(E, q)]] :
        s \in States, acc \in SUBSET States, keys \in {{}, States},
        E \in BoundedSubsets(States \X L \X States, k)}

\* the input NFAs with epsilon edges: a state without edges may have an
\* empty Vec or no entry
EnfaInputs(k) == NfaValues(Labels, k)

\* the input NFAs without epsilon edges
NfaInputs(k) == NfaValues({Char(c) : c \in Alphabet}, k)

\* the ASTs with exactly k nodes
RECURSIVE AstsOfSize(_)
AstsOfSize(k) ==
    IF k = 1 THEN {<<"Char", c>> : c \in 1..AstSyms}
    ELSE {<<"Star", a>> : a \in AstsOfSize(k - 1)}
         \cup UNION {{<<op, a, b>> : op \in {"Concat", "Union"},
                                     a \in AstsOfSize(i), b \in AstsOfSize(k - 1 - i)} :
                         i \in 1..(k - 2)}

\* the pattern "(a+b)*c" of the tests (parser.rs 231-247, epsilon_elimination.rs 206-208)
TestPattern ==
    <<"Concat", <<"Star", <<"Union", <<"Char", 1>>, <<"Char", 2>>>>>>, <<"Char", 3>>>>

\* every AST with at most m nodes, and the pattern of the tests
AstInputs(m) == UNION {AstsOfSize(k) : k \in 1..m} \cup {TestPattern}

\* the DFAs full_pipeline hands to minimize_dfa for the pattern "(a+b)*c",
\* one per iteration order of the symbols in remove_epsilon and of the
\* HashMap of each of the four iterations of its loop
TestPatternDfas ==
    {nfa_to_dfa(remove_epsilon(enfa_from_ast(TestPattern), symbols, chars)) :
        symbols \in Orders(1..3), chars \in [1..4 -> Orders(1..3)]}

\* every DFA value over States with at most k transitions; a state without
\* transitions may have an empty map or no entry at all
DfaInputs(k) ==
    {[start |-> s, accepts |-> acc, transitions |-> dfa_transitions(keys, f)] :
        s \in States, acc \in SUBSET States, keys \in {{}, States},
        f \in UNION {[K -> States] : K \in BoundedSubsets(States \X Alphabet, k)}}

(***************************************************************************)
(* minimize_dfa, one step per iteration of its loops.                      *)
(***************************************************************************)
\* lines 9-47: collect states and symbols, build the initial partition and
\* work queue; the HashSet of symbols gets one of its iteration orders
MinimizeBegin ==
    /\ pc = "dfa"
    /\ \E symbols \in Orders(dfa_symbols(dfa)) :
           min' = [symbols |-> symbols,
                   partitions |-> initial_partitions(dfa),
                   work_queue |-> initial_work_queue(dfa),
                   splitter |-> {}, i |-> 0]
    /\ pc' = "min_while"
    /\ UNCHANGED <<ast, enfa, nfa, dfa, mindfa, eps, det, word, verdict, ren>>

\* line 50: while let Some(splitter) = work_queue.pop_front()
MinimizePop ==
    /\ pc = "min_while"
    /\ min.work_queue # <<>>
    /\ min' = [min EXCEPT !.splitter = Head(min.work_queue),
                          !.work_queue = Tail(min.work_queue),
                          !.i = 1]
    /\ pc' = "min_for"
    /\ UNCHANGED <<ast, enfa, nfa, dfa, mindfa, eps, det, word, verdict, ren>>

\* lines 51-100: one iteration of `for &symbol in &symbols`
MinimizeSymbol ==
    /\ pc = "min_for"
    /\ min.i <= Len(min.symbols)
    /\ LET r == refine_on_symbol(dfa, min.partitions, min.work_queue,
                                 min.splitter, min.symbols[min.i])
       IN  min' = [min EXCEPT !.partitions = r.partitions,
                              !.work_queue = r.work_queue,
                              !.i = min.i + 1]
    /\ UNCHANGED <<pc, ast, enfa, nfa, dfa, mindfa, eps, det, word, verdict, ren>>

\* the end of the for loop: back to the head of the while loop
MinimizeNext ==
    /\ pc = "min_for"
    /\ min.i > Len(min.symbols)
    /\ pc' = "min_while"
    /\ UNCHANGED <<ast, enfa, nfa, dfa, mindfa, eps, det, min, word, verdict, ren>>

\* line 104: the queue is empty, build and return the minimized DFA
MinimizeReturn ==
    /\ pc = "min_while"
    /\ min.work_queue = <<>>
    /\ mindfa' = build_minimized_dfa(dfa, min.partitions)
    /\ pc' = "mindfa"
    /\ UNCHANGED <<ast, enfa, nfa, dfa, eps, det, min, word, verdict, ren>>

(***************************************************************************)
(* pipeline/tests.rs: full_pipeline, one step per stage or loop iteration. *)
(***************************************************************************)
\* line 25: Thompson construction
Thompson ==
    /\ pc = "ast"
    /\ enfa' = enfa_from_ast(ast)
    /\ pc' = "enfa"
    /\ UNCHANGED <<ast, nfa, dfa, mindfa, eps, det, min, word, verdict, ren>>

\* remove_epsilon lines 75-102; the HashSet of symbols gets an iteration order
RemoveEpsilonBegin ==
    /\ pc = "enfa"
    /\ \E symbols \in Orders(nfa_symbols(enfa)) : eps' = eps_begin(enfa, symbols)
    /\ pc' = "eps_while"
    /\ UNCHANGED <<ast, enfa, nfa, dfa, mindfa, det, min, word, verdict, ren>>

\* remove_epsilon lines 105-153: one iteration of the BFS loop; the HashMap
\* transitions_by_char of the iteration gets an iteration order
RemoveEpsilonStep ==
    /\ pc = "eps_while"
    /\ eps.queue # <<>>
    /\ LET r == eps_step(enfa, eps)
       IN  \E chars \in Orders(DOMAIN r.transitions_by_char) :
               eps' = eps_step_push(r, Head(eps.queue), chars)
    /\ UNCHANGED <<pc, ast, enfa, nfa, dfa, mindfa, det, min, word, verdict, ren>>

\* remove_epsilon lines 156-174
RemoveEpsilonReturn ==
    /\ pc = "eps_while"
    /\ eps.queue = <<>>
    /\ nfa' = eps_return(enfa, eps)
    /\ pc' = "nfa"
    /\ UNCHANGED <<ast, enfa, dfa, mindfa, eps, det, min, word, verdict, ren>>

\* nfa_to_dfa lines 29-56
NfaToDfaBegin ==
    /\ pc = "nfa"
    /\ det' = det_begin(nfa)
    /\ pc' = "det_while"
    /\ UNCHANGED <<ast, enfa, nfa, dfa, mindfa, eps, min, word, verdict, ren>>

\* nfa_to_dfa lines 59-106: one iteration of the BFS loop
NfaToDfaStep ==
    /\ pc = "det_while"
    /\ det.queue # <<>>
    /\ det' = det_step(nfa, det)
    /\ UNCHANGED <<pc, ast, enfa, nfa, dfa, mindfa, eps, min, word, verdict, ren>>

\* nfa_to_dfa lines 108-112
NfaToDfaReturn ==
    /\ pc = "det_while"
    /\ det.queue = <<>>
    /\ dfa' = det_return(det)
    /\ pc' = "dfa"
    /\ UNCHANGED <<ast, enfa, nfa, mindfa, eps, det, min, word, verdict, ren>>

\* DFA::accepts called on the DFA the caller holds
AcceptsCall ==
    /\ pc = "mindfa"
    /\ \E input \in Words :
           /\ word' = input
           /\ verdict' = DFA_accepts(mindfa, input)
    /\ pc' = "tested"
    /\ UNCHANGED <<ast, enfa, nfa, dfa, mindfa, eps, det, min, ren>>

(***************************************************************************)
(* Specification Spec: full_pipeline on every input AST.                   *)
(***************************************************************************)
Init ==
    /\ pc = "ast"
    /\ ast \in AstInputs(MaxNodes)
    /\ enfa = NoNFA /\ nfa = NoNFA /\ dfa = NoDFA /\ mindfa = NoDFA
    /\ eps = NoLocals /\ det = NoLocals /\ min = NoLocals
    /\ ren = NoLocals
    /\ word = NoWord /\ verdict = FALSE

Next ==
    \/ Thompson
    \/ RemoveEpsilonBegin \/ RemoveEpsilonStep \/ RemoveEpsilonReturn
    \/ NfaToDfaBegin \/ NfaToDfaStep \/ NfaToDfaReturn
    \/ MinimizeBegin \/ MinimizePop \/ MinimizeSymbol \/ MinimizeNext \/ MinimizeReturn

Spec == Init /\ [][Next]_vars

(***************************************************************************)
(* Specification SpecEps: remove_epsilon on every input epsilon-NFA and on *)
(* the Thompson automaton of the pattern of the tests.                     *)
(***************************************************************************)
InitEps ==
    /\ pc = "enfa"
    /\ enfa \in EnfaInputs(MaxEdges) \cup {enfa_from_ast(TestPattern)}
    /\ ast = NoAST /\ nfa = NoNFA /\ dfa = NoDFA /\ mindfa = NoDFA
    /\ eps = NoLocals /\ det = NoLocals /\ min = NoLocals
    /\ ren = NoLocals
    /\ word = NoWord /\ verdict = FALSE

NextEps == RemoveEpsilonBegin \/ RemoveEpsilonStep \/ RemoveEpsilonReturn

SpecEps == InitEps /\ [][NextEps]_vars

(***************************************************************************)
(* Specification SpecDet: nfa_to_dfa on every input NFA without epsilon.   *)
(***************************************************************************)
InitDet ==
    /\ pc = "nfa"
    /\ nfa \in NfaInputs(MaxEdges)
    /\ ast = NoAST /\ enfa = NoNFA /\ dfa = NoDFA /\ mindfa = NoDFA
    /\ eps = NoLocals /\ det = NoLocals /\ min = NoLocals
    /\ ren = NoLocals
    /\ word = NoWord /\ verdict = FALSE

NextDet == NfaToDfaBegin \/ NfaToDfaStep \/ NfaToDfaReturn

SpecDet == InitDet /\ [][NextDet]_vars

(***************************************************************************)
(* Specification SpecAcc: DFA::accepts on every input DFA and string.      *)
(***************************************************************************)
InitAcc ==
    /\ pc = "mindfa"
    /\ mindfa \in DfaInputs(MaxTrans)
    /\ ast = NoAST /\ enfa = NoNFA /\ nfa = NoNFA /\ dfa = NoDFA
    /\ eps = NoLocals /\ det = NoLocals /\ min = NoLocals
    /\ ren = NoLocals
    /\ word = NoWord /\ verdict = FALSE

NextAcc == AcceptsCall

SpecAcc == InitAcc /\ [][NextAcc]_vars

(***************************************************************************)
(* Specification SpecMin: minimize_dfa on every input DFA.                 *)
(***************************************************************************)
InitMin ==
    /\ pc = "dfa"
    /\ dfa \in DfaInputs(MaxTrans) \cup TestPatternDfas
    /\ ast = NoAST /\ enfa = NoNFA /\ nfa = NoNFA /\ mindfa = NoDFA
    /\ eps = NoLocals /\ det = NoLocals /\ min = NoLocals
    /\ ren = NoLocals
    /\ word = NoWord /\ verdict = FALSE

NextMin == MinimizeBegin \/ MinimizePop \/ MinimizeSymbol \/ MinimizeNext \/ MinimizeReturn

SpecMin == InitMin /\ [][NextMin]_vars

(***************************************************************************)
(* nfa/renumber.rs: renumber_dfs, one step per iteration of the while loop.*)
(***************************************************************************)
\* renumber_dfs lines 9-16
RenumberBegin ==
    /\ pc = "enfa"
    /\ ren' = ren_begin(enfa)
    /\ pc' = "ren_while"
    /\ UNCHANGED <<ast, enfa, nfa, dfa, mindfa, eps, det, min, word, verdict>>

\* renumber_dfs lines 19-30
RenumberStep ==
    /\ pc = "ren_while"
    /\ ren.stack # <<>>
    /\ ren' = ren_step(enfa, ren)
    /\ UNCHANGED <<pc, ast, enfa, nfa, dfa, mindfa, eps, det, min, word, verdict>>

\* renumber_dfs lines 32-56
RenumberReturn ==
    /\ pc = "ren_while"
    /\ ren.stack = <<>>
    /\ nfa' = ren_return(enfa, ren)
    /\ pc' = "renumbered"
    /\ UNCHANGED <<ast, enfa, dfa, mindfa, eps, det, min, ren, word, verdict>>

(***************************************************************************)
(* Specification SpecRen: renumber_dfs on every input NFA and on the       *)
(* Thompson automaton of the pattern of the tests.                         *)
(***************************************************************************)
InitRen ==
    /\ pc = "enfa"
    /\ enfa \in EnfaInputs(MaxEdges) \cup {enfa_from_ast(TestPattern)}
    /\ ast = NoAST /\ nfa = NoNFA /\ dfa = NoDFA /\ mindfa = NoDFA
    /\ eps = NoLocals /\ det = NoLocals /\ min = NoLocals
    /\ ren = NoLocals
    /\ word = NoWord /\ verdict = FALSE

NextRen == RenumberBegin \/ RenumberStep \/ RenumberReturn

SpecRen == InitRen /\ [][NextRen]_vars

(***************************************************************************)
(* Specification SpecStages: each of the three worklist stages started on  *)
(* every input of its own and run on into the stages after it.  The code   *)
(* is sequential and single-threaded: a stage that can take a step takes   *)
(* it, which is the weak fairness of Next.                                 *)
(***************************************************************************)
InitStages == InitEps \/ InitDet \/ InitMin

NextStages == NextEps \/ NextDet \/ NextMin

SpecStages == InitStages /\ [][NextStages]_vars /\ WF_vars(NextStages)

(***************************************************************************)
(* The languages of regular expressions and automata, as the properties    *)
(* below read them.                                                        *)
(***************************************************************************)
\* w belongs to the regular language the AST denotes
RECURSIVE Matches(_, _)
Matches(node, w) ==
    IF node[1] = "Char" THEN w = <<node[2]>>
    ELSE IF node[1] = "Concat"
    THEN \E k \in 0..Len(w) :
             Matches(node[2], SubSeq(w, 1, k)) /\ Matches(node[3], SubSeq(w, k + 1, Len(w)))
    ELSE IF node[1] = "Union" THEN Matches(node[2], w) \/ Matches(node[3], w)
    ELSE w = <<>> \/ \E k \in 1..Len(w) :
             Matches(node[2], SubSeq(w, 1, k)) /\ Matches(node, SubSeq(w, k + 1, Len(w)))

\* some path labelled w from state s ends in an accept state (no epsilon moves)
RECURSIVE PathAccepts(_, _, _)
PathAccepts(n, s, w) ==
    IF w = <<>> THEN s \in Range(n.accept)
    ELSE \E e \in Range(nfa_edges(n, s)) :
             e[1] = Char(Head(w)) /\ PathAccepts(n, e[2], Tail(w))

NfaAccepts(n, w) == PathAccepts(n, n.start, w)

\* the states reachable from S by epsilon edges alone
RECURSIVE EpsReach(_, _)
EpsReach(n, S) ==
    LET N == S \cup {e[2] : e \in {ed \in UNION {Range(nfa_edges(n, s)) : s \in S} :
                                      ed[1] = Epsilon}}
    IN  IF N = S THEN S ELSE EpsReach(n, N)

\* epsilon-closure simulation: S is closed, w is left to read
RECURSIVE SimAccepts(_, _, _)
SimAccepts(n, S, w) ==
    IF w = <<>> THEN S \cap Range(n.accept) # {}
    ELSE SimAccepts(n,
             EpsReach(n, {e[2] : e \in {ed \in UNION {Range(nfa_edges(n, s)) : s \in S} :
                                           ed[1] = Char(Head(w))}}),
             Tail(w))

EnfaAccepts(n, w) == SimAccepts(n, EpsReach(n, {n.start}), w)

\* the states of a DFA reachable from its start
RECURSIVE ReachFrom(_, _)
ReachFrom(d, S) ==
    LET N == S \cup UNION {Range(d.transitions[s]) : s \in S \cap DOMAIN d.transitions}
    IN  IF N = S THEN S ELSE ReachFrom(d, N)

Reachable(d) == ReachFrom(d, {d.start})

\* the state reached from the start after reading w, <<>> if a transition is missing
RECURSIVE RunTo(_, _)
RunTo(d, w) ==
    IF w = <<>> THEN <<d.start>>
    ELSE LET p == RunTo(d, SubSeq(w, 1, Len(w) - 1))
         IN  IF p = <<>> THEN <<>> ELSE dfa_get(d, p[1], w[Len(w)])

\* the symbols state s has a transition on
Defined(d, s) == IF s \in DOMAIN d.transitions THEN DOMAIN d.transitions[s] ELSE {}

\* p and q agree on acceptance and, for k more rounds, on which symbols they
\* have transitions on and on the targets of these transitions
RECURSIVE Alike(_, _, _, _)
Alike(d, k, p, q) ==
    /\ (p \in d.accepts) = (q \in d.accepts)
    /\ k > 0 =>
         /\ Defined(d, p) = Defined(d, q)
         /\ \A c \in Defined(d, p) :
                Alike(d, k - 1, d.transitions[p][c], d.transitions[q][c])

\* p and q are behaviourally indistinguishable in the sense of the minimizer
Indistinguishable(d, p, q) == Alike(d, Cardinality(all_states(d)), p, q)

\* the index of the class of state s
ClassOf(partitions, s) == CHOOSE i \in DOMAIN partitions : s \in partitions[i]

(***************************************************************************)
(* Properties.                                                             *)
(***************************************************************************)

\* C1: for every input AST and every string w, the minimized DFA that
\* full_pipeline returns accepts w iff w belongs to the language of the AST.
C1_PipelineDecidesLanguage ==
    pc = "mindfa" => \A w \in AstWords : DFA_accepts(mindfa, w) = Matches(ast, w)

\* C1 witness: the pipeline has run on (a+b)*c and its DFA accepts "abac".
C1_Witness ==
    /\ pc = "mindfa"
    /\ ast = TestPattern
    /\ DFA_accepts(mindfa, <<1, 2, 1, 3>>)
    /\ ~DFA_accepts(mindfa, <<3, 1, 2>>)

\* C2: minimize_dfa preserves the language: the input DFA (partial,
\* unreachable states allowed) and the returned DFA accept the same strings.
C2_MinimizePreservesLanguage ==
    pc = "mindfa" => \A w \in Words : DFA_accepts(dfa, w) = DFA_accepts(mindfa, w)

\* C2 witness: a DFA with an unreachable state whose minimization merged two
\* states and which accepts a string of two symbols or more.
C2_Witness ==
    /\ pc = "mindfa"
    /\ Len(min.partitions) < Cardinality(all_states(dfa))
    /\ Reachable(dfa) # all_states(dfa)
    /\ \E w \in Words : Len(w) >= 2 /\ DFA_accepts(mindfa, w)

\* C3: nfa_to_dfa preserves the language: some path of the epsilon-free NFA
\* labelled w ends in an accept state iff the returned DFA accepts w.
C3_DeterminizePreservesLanguage ==
    pc = "dfa" => \A w \in Words : NfaAccepts(nfa, w) = DFA_accepts(dfa, w)

\* C3 witness: the NFA has two edges on one symbol from one state, so that a
\* DFA state stands for two NFA states, and the DFA accepts a non-empty string.
C3_Witness ==
    /\ pc = "dfa"
    /\ \E i \in DOMAIN det.id_to_subset : Cardinality(det.id_to_subset[i]) >= 2
    /\ \E w \in Words : Len(w) >= 2 /\ DFA_accepts(dfa, w)

\* C4: remove_epsilon preserves the language: the input accepts w under
\* epsilon-closure simulation iff the returned NFA has a path labelled w from
\* its start to an accept state.
C4_EliminationPreservesLanguage ==
    pc = "nfa" => \A w \in Words : EnfaAccepts(enfa, w) = NfaAccepts(nfa, w)

\* C4 witness: the input has an epsilon edge that a string it accepts needs.
C4_Witness ==
    /\ pc = "nfa"
    /\ \E w \in Words :
           /\ Len(w) >= 1
           /\ EnfaAccepts(enfa, w)
           /\ ~NfaAccepts(enfa, w)

\* C5: minimize_dfa ends with the coarsest consistent partition: two states
\* are in different classes iff they differ in acceptance or, for some symbol,
\* in having a transition or in the class of its target; and states that are
\* indistinguishable (same acceptance, same symbols, alike targets) share a class.
C5_CoarsestConsistentPartition ==
    pc = "mindfa" =>
        \A p, q \in all_states(dfa) :
            LET P == min.partitions
                Differ == \/ (p \in dfa.accepts) # (q \in dfa.accepts)
                          \/ Defined(dfa, p) # Defined(dfa, q)
                          \/ \E c \in Defined(dfa, p) :
                                 ClassOf(P, dfa.transitions[p][c])
                                     # ClassOf(P, dfa.transitions[q][c])
            IN  /\ ClassOf(P, p) # ClassOf(P, q) <=> Differ
                /\ Indistinguishable(dfa, p, q) => ClassOf(P, p) = ClassOf(P, q)

\* C5 witness: two accepting states without outgoing transitions were merged
\* and the start state is in another class.
C5_Witness ==
    /\ pc = "mindfa"
    /\ \E p, q \in dfa.accepts :
           /\ p # q
           /\ Defined(dfa, p) = {} /\ Defined(dfa, q) = {}
           /\ ClassOf(min.partitions, p) = ClassOf(min.partitions, q)
           /\ ClassOf(min.partitions, dfa.start) # ClassOf(min.partitions, p)
           /\ Defined(dfa, dfa.start) # {}

\* C6: the minimized DFA of the pipeline is the smallest one: each of its
\* states (classes) is reachable from the start and any two distinct states
\* are told apart by some string.
C6_PipelineDfaIsMinimal ==
    pc = "mindfa" =>
        LET Q == 0..(Len(min.partitions) - 1)
        IN  /\ Reachable(mindfa) = Q
            /\ \A p, q \in Q :
                   p # q => \E w \in AstWords :
                                accepts_from(mindfa, p, w) # accepts_from(mindfa, q, w)

\* C6 witness: minimization merged states of the DFA of the pipeline and the
\* result has three states or more.
C6_Witness ==
    /\ pc = "mindfa"
    /\ Len(min.partitions) < Cardinality(all_states(dfa))
    /\ Len(min.partitions) >= 3

\* C7: DFA::accepts returns false when some symbol of the input has no
\* transition from the state reached before it, otherwise true iff the state
\* reached after the last symbol is accepting; on the empty input it returns
\* true iff the start state is accepting.
C7_AcceptsWalksTheInput ==
    pc = "tested" =>
        /\ (\E k \in 1..Len(word) : RunTo(mindfa, SubSeq(word, 1, k)) = <<>>) => verdict = FALSE
        /\ RunTo(mindfa, word) # <<>> => verdict = (RunTo(mindfa, word)[1] \in mindfa.accepts)
        /\ word = <<>> => verdict = (mindfa.start \in mindfa.accepts)

\* C7 witness: the first symbol of a longer input has no transition from an
\* accepting start state, and the call returned false.
C7_Witness ==
    /\ pc = "tested"
    /\ Len(word) >= 3
    /\ dfa_get(mindfa, mindfa.start, word[1]) = <<>>
    /\ mindfa.start \in mindfa.accepts
    /\ verdict = FALSE

\* C8: minimizing twice does not change the size: minimize_dfa applied to a
\* minimized DFA returns a DFA with as many states reachable from the start.
C8_MinimizeIdempotentOnSize ==
    pc = "mindfa" =>
        \A symbols \in Orders(dfa_symbols(mindfa)) :
            Cardinality(Reachable(minimize_dfa(mindfa, symbols))) = Cardinality(Reachable(mindfa))

\* C8 witness: a first minimization that merged states and left two or more
\* reachable states.
C8_Witness ==
    /\ pc = "mindfa"
    /\ Len(min.partitions) < Cardinality(all_states(dfa))
    /\ Cardinality(Reachable(mindfa)) >= 2

\* C9 as claimed: a DFA with an empty accept set is minimized to one
\* non-accepting state.
C9_EmptyAcceptCollapses ==
    pc = "mindfa" /\ dfa.accepts = {} =>
        Len(min.partitions) = 1 /\ mindfa.accepts = {}

\* C9 amended: a DFA with an empty accept set is minimized to a DFA with an
\* empty accept set, which has exactly one state iff all states of the input
\* have transitions on the same symbols.
C9_EmptyAcceptCollapsesIfUniform ==
    pc = "mindfa" /\ dfa.accepts = {} =>
        /\ mindfa.accepts = {}
        /\ Len(min.partitions) = 1 <=>
               \A p, q \in all_states(dfa) : Defined(dfa, p) = Defined(dfa, q)

\* C9 witness: three states without accepting ones, all with a transition on
\* the same symbol, collapsed into one class.
C9_Witness ==
    /\ pc = "mindfa"
    /\ dfa.accepts = {}
    /\ Cardinality(all_states(dfa)) >= 3
    /\ \A p \in all_states(dfa) : Defined(dfa, p) # {}
    /\ Len(min.partitions) = 1

\* start, accept set and edges (state ids included) of two NFAs are the same
SameAutomaton(m, n) ==
    /\ m.start = n.start
    /\ Range(m.accept) = Range(n.accept)
    /\ DOMAIN m.transitions = DOMAIN n.transitions
    /\ \A s \in DOMAIN m.transitions : Range(m.transitions[s]) = Range(n.transitions[s])

\* C10: remove_epsilon and minimize_dfa return the same automaton (state ids,
\* start, accept set, transitions) whatever the iteration order of their
\* hash-based collections: the result is the one computed with every
\* collection iterated in ascending order.
C10_StagesAreDeterministic ==
    /\ pc = "nfa" =>
           SameAutomaton(nfa, remove_epsilon(enfa, Sorted(nfa_symbols(enfa)),
                                             [k \in 1..eps.next_id |->
                                                 Sorted(nfa_symbols(enfa))]))
    /\ pc = "mindfa" => mindfa = minimize_dfa(dfa, Sorted(dfa_symbols(dfa)))

\* C11: for the pattern (a+b)*c the minimized DFA of the pipeline accepts
\* "c", "ac", "bc", "abac" and "bbbbc" and rejects "", "a", "cc" and "cab".
C11_TestPatternStrings ==
    pc = "mindfa" /\ ast = TestPattern =>
        /\ \A w \in {<<3>>, <<1, 3>>, <<2, 3>>, <<1, 2, 1, 3>>, <<2, 2, 2, 2, 3>>} :
               DFA_accepts(mindfa, w)
        /\ \A w \in {<<>>, <<1>>, <<3, 3>>, <<3, 1, 2>>} : ~DFA_accepts(mindfa, w)

\* C11 witness: the pipeline has returned the minimized DFA of (a+b)*c, which
\* accepts "bbbbc" and rejects "cab".
C11_Witness ==
    /\ pc = "mindfa"
    /\ ast = TestPattern
    /\ DFA_accepts(mindfa, <<2, 2, 2, 2, 3>>)
    /\ ~DFA_accepts(mindfa, <<3, 1, 2>>)

\* C12: minimize_dfa does not increase the state count: the returned DFA has
\* at most as many classes (and referenced states) as the input DFA has
\* referenced states, and at most as many states reachable from the start;
\* among the inputs are the DFAs of (a+b)*c.
C12_MinimizeNeverGrows ==
    pc = "mindfa" =>
        /\ Len(min.partitions) <= Cardinality(all_states(dfa))
        /\ Cardinality(all_states(mindfa)) <= Cardinality(all_states(dfa))
        /\ Cardinality(Reachable(mindfa)) <= Cardinality(Reachable(dfa))

\* C12 witness: the DFA of (a+b)*c, with four reachable states, has been
\* minimized to a DFA with fewer states.
C12_Witness ==
    /\ pc = "mindfa"
    /\ dfa \in TestPatternDfas
    /\ Cardinality(Reachable(dfa)) = 4
    /\ Cardinality(Reachable(mindfa)) < 4

\* the states of an NFA reachable from S over edges of any label
RECURSIVE NfaReach(_, _)
NfaReach(n, S) ==
    LET T == S \cup {e[2] : e \in UNION {Range(nfa_edges(n, s)) : s \in S}}
    IN  IF T = S THEN S ELSE NfaReach(n, T)

\* the chars that label an edge leaving a state reachable from the start
ReachableSymbols(n) ==
    {e[1][2] : e \in {ed \in UNION {Range(nfa_edges(n, s)) : s \in NfaReach(n, {n.start})} :
                         ed[1][1] = "Char"}}

\* C13: the automaton remove_epsilon returns has no Epsilon edge, every edge
\* carries a Char label, and every symbol of an edge reachable from the start
\* of the input labels some edge of the output.
C13_NoEpsilonInOutput ==
    pc = "nfa" =>
        /\ \A s \in DOMAIN nfa.transitions : \A e \in Range(nfa.transitions[s]) :
               e[1] # Epsilon /\ e[1][1] = "Char"
        /\ ReachableSymbols(enfa) \subseteq nfa_symbols(nfa)

\* C13 witness: remove_epsilon has returned for the Thompson automaton of
\* (a+b)*c, which has epsilon edges, and 'c' labels an edge of the output.
C13_Witness ==
    /\ pc = "nfa"
    /\ enfa = enfa_from_ast(TestPattern)
    /\ \E s \in DOMAIN enfa.transitions : \E e \in Range(enfa.transitions[s]) : e[1] = Epsilon
    /\ 3 \in nfa_symbols(nfa)

\* the number of Char, Union and Star nodes of an AST
RECURSIVE Allocating(_)
Allocating(node) ==
    IF node[1] = "Char" THEN 1
    ELSE IF node[1] = "Star" THEN 1 + Allocating(node[2])
    ELSE (IF node[1] = "Union" THEN 1 ELSE 0) + Allocating(node[2]) + Allocating(node[3])

\* the states a call of build added to the NFA
Allocated(call) == DOMAIN call.frag.transitions \ DOMAIN call.before

\* C14: the Thompson construction allocates two states per Char, Union and
\* Star node and none per Concat node: the automaton of an AST has
\* 2 * (#Char + #Union + #Star) states with the ids 0..n-1, every call of
\* build adds twice as many states as its subtree has such nodes, the two
\* states a Char, Union or Star node allocates are its start and accept and
\* belong to no other node, and sibling fragments share no state.
C14_TwoStatesPerNode ==
    pc = "enfa" =>
        LET calls == build_calls(<<>>, ast)
            n == Cardinality(DOMAIN enfa.transitions)
        IN  /\ n = 2 * Allocating(ast)
            /\ DOMAIN enfa.transitions = 0..(n - 1)
            /\ \A call \in calls :
                   /\ Cardinality(Allocated(call)) = 2 * Allocating(call.node)
                   /\ call.node[1] # "Concat" =>
                          /\ call.frag.start # call.frag.accept
                          /\ {call.frag.start, call.frag.accept} \subseteq Allocated(call)
                   /\ call.node[1] \in {"Concat", "Union"} =>
                          LET left == build(call.before, call.node[2])
                              right == build(left.transitions, call.node[3])
                          IN  NfaReach(right, {left.start}) \cap NfaReach(right, {right.start}) = {}
            /\ \A c1, c2 \in calls :
                   c1 # c2 /\ c1.node[1] # "Concat" /\ c2.node[1] # "Concat" =>
                       {c1.frag.start, c1.frag.accept} \cap {c2.frag.start, c2.frag.accept} = {}

\* C14 witness: the automaton of an AST with a Concat, a Union and a Star
\* node has been built.
C14_Witness ==
    /\ pc = "enfa"
    /\ ast = TestPattern
    /\ Cardinality(DOMAIN enfa.transitions) = 10

\* the states with an edge to state t in the map `transitions`
Sources(transitions, t) ==
    {s \in DOMAIN transitions : \E e \in Range(transitions[s]) : e[2] = t}

\* C15: when build returns the fragment of a node, the accept state of the
\* fragment has no outgoing edge and no state of the NFA, outside the fragment
\* or inside, has an edge to its start state; so the accept state of the
\* final automaton has no outgoing edge and its start state no incoming edge.
C15_DanglingPair ==
    pc = "enfa" =>
        /\ \A call \in build_calls(<<>>, ast) :
               /\ call.frag.transitions[call.frag.accept] = <<>>
               /\ Sources(call.frag.transitions, call.frag.start) = {}
        /\ \A i \in DOMAIN enfa.accept : nfa_edges(enfa, enfa.accept[i]) = <<>>
        /\ Sources(enfa.transitions, enfa.start) = {}

\* C15 witness: the automaton of a Star over a Concat has been built; the
\* start of the operand's fragment has got incoming edges since its return.
C15_Witness ==
    /\ pc = "enfa"
    /\ ast[1] = "Star"
    /\ ast[2][1] = "Concat"
    /\ Sources(enfa.transitions, build(<<>>, ast[2]).start) # {}
    /\ Sources(enfa.transitions, enfa.start) = {}

\* C16: the epsilon closure is extensive and idempotent: every set S of
\* states is within epsilon_closure_of_set(S), every state s is in
\* epsilon_closure_of_state(s), and the closure of a closure is that closure;
\* the closure sets remove_epsilon has computed are their own closures.
C16_ClosureExtensiveIdempotent ==
    /\ pc = "enfa" =>
           /\ \A S \in SUBSET (States \cup DOMAIN enfa.transitions) :
                  LET closure == epsilon_closure_of_set(enfa, S)
                  IN  /\ S \subseteq closure
                      /\ epsilon_closure_of_set(enfa, closure) = closure
           /\ \A st \in States \cup DOMAIN enfa.transitions :
                  st \in epsilon_closure_of_state(enfa, st)
    /\ pc = "eps_while" =>
           \A cs \in DOMAIN eps.state_map :
               epsilon_closure_of_set(enfa, Range(cs)) = Range(cs)

\* C16 witness: remove_epsilon has computed a closure of three states, two
\* steps of epsilon edges away from a state it was computed from.
C16_Witness ==
    /\ pc = "eps_while"
    /\ \E cs \in DOMAIN eps.state_map :
           /\ Len(cs) = 3
           /\ \E st \in Range(cs) :
                  /\ epsilon_closure_of_state(enfa, st) = Range(cs)
                  /\ Cardinality({e[2] : e \in {ed \in Range(nfa_edges(enfa, st)) :
                                                   ed[1] = Epsilon}} \ {st}) = 1

\* every state an NFA mentions
NfaStates(n) ==
    {n.start} \cup Range(n.accept) \cup DOMAIN n.transitions
    \cup {e[2] : e \in UNION {Range(n.transitions[s]) : s \in DOMAIN n.transitions}}

InLoop == pc \in {"eps_while", "det_while", "min_while", "min_for"}

\* A bound on the loop iterations left.  remove_epsilon and nfa_to_dfa: every
\* queued set takes one iteration and every set not yet numbered may be
\* queued once.  minimize_dfa: every queued splitter takes one pass over the
\* symbols and every split still possible queues one splitter.
Variant ==
    CASE pc = "eps_while" ->
             2 * (2 ^ Cardinality(NfaStates(enfa)) - Cardinality(DOMAIN eps.state_map))
             + Len(eps.queue)
      [] pc = "det_while" ->
             2 * (2 ^ Cardinality(NfaStates(nfa)) - Len(det.id_to_subset)) + Len(det.queue)
      [] pc \in {"min_while", "min_for"} ->
             (2 * (Cardinality(all_states(dfa)) - Len(min.partitions)) + Len(min.work_queue))
                 * (Len(min.symbols) + 2)
             + (IF pc = "min_for" THEN Len(min.symbols) + 2 - min.i ELSE 0)
      [] OTHER -> 0

\* a set is queued when, and only when, it is given a new id
QueuedOnce ==
    /\ pc = "eps_while" =>
           /\ eps.next_id = Cardinality(DOMAIN eps.state_map)
           /\ \A i, j \in DOMAIN eps.queue : eps.queue[i] = eps.queue[j] => i = j
           /\ \A i \in DOMAIN eps.queue : Sorted(eps.queue[i]) \in DOMAIN eps.state_map
    /\ pc = "det_while" =>
           /\ Len(det.id_to_subset) = Cardinality(DOMAIN det.subset_to_id)
           /\ \A i, j \in DOMAIN det.queue : det.queue[i] = det.queue[j] => i = j

\* the loops are left with an empty queue
QueueEmptyAtReturn ==
    /\ pc = "nfa" /\ eps # NoLocals => eps.queue = <<>>
    /\ pc = "dfa" /\ det # NoLocals => det.queue = <<>>
    /\ pc = "mindfa" /\ min # NoLocals => min.work_queue = <<>>

\* C17: every stage terminates.  The number of loop iterations left is
\* bounded: Variant is never negative and every step of the loops of
\* remove_epsilon, nfa_to_dfa and minimize_dfa makes it smaller, so each loop
\* empties its queue after finitely many steps; a set is queued at most once
\* and minimize_dfa pushes a splitter only together with a split of a class.
C17_StagesTerminate ==
    /\ [](Variant >= 0 /\ QueuedOnce /\ QueueEmptyAtReturn)
    /\ [][InLoop /\ InLoop' => Variant' < Variant]_vars
    /\ [][pc = "min_for" /\ pc' = "min_for" =>
              Len(min'.work_queue) - Len(min.work_queue)
                  = Len(min'.partitions) - Len(min.partitions)]_vars

\* C17 witness: the three stages have run one after the other, each has
\* numbered three sets or classes, and each has left its loop with an empty
\* queue.
C17_Witness ==
    /\ pc = "mindfa"
    /\ eps # NoLocals /\ eps.next_id >= 3 /\ eps.queue = <<>>
    /\ Len(det.id_to_subset) >= 3 /\ det.queue = <<>>
    /\ Len(min.partitions) >= 3 /\ min.work_queue = <<>>

\* C18: in nfa_to_dfa every DFA state id stands for a non-empty subset of
\* NFA states of its own: no subset has two ids, the empty subset has none,
\* the two tables agree, and the DFA has at most 2^|N.states| states, each of
\* them one of the ids.
C18_SubsetsDistinctNonEmpty ==
    pc \in {"det_while", "dfa"} /\ det # NoLocals =>
        /\ \A i, j \in DOMAIN det.id_to_subset :
               det.id_to_subset[i] = det.id_to_subset[j] => i = j
        /\ \A i \in DOMAIN det.id_to_subset :
               /\ det.id_to_subset[i] # {}
               /\ det.id_to_subset[i] \subseteq NfaStates(nfa)
               /\ det.id_to_subset[i] \in DOMAIN det.subset_to_id
               /\ det.subset_to_id[det.id_to_subset[i]] = i - 1
        /\ Cardinality(DOMAIN det.subset_to_id) = Len(det.id_to_subset)
        /\ Len(det.id_to_subset) <= 2 ^ Cardinality(NfaStates(nfa))
        /\ pc = "dfa" =>
               /\ all_states(dfa) \subseteq 0..(Len(det.id_to_subset) - 1)
               /\ Cardinality(all_states(dfa)) <= 2 ^ Cardinality(NfaStates(nfa))

\* C18 witness: nfa_to_dfa has returned after it found a subset it had
\* numbered before (a transition back to an earlier state) and an empty
\* target (a state without a transition on a symbol of the NFA).
C18_Witness ==
    /\ pc = "dfa"
    /\ det # NoLocals
    /\ Len(det.id_to_subset) >= 3
    /\ \E s \in DOMAIN dfa.transitions : \E c \in DOMAIN dfa.transitions[s] :
           dfa.transitions[s][c] < s
    /\ \E s \in 0..(Len(det.id_to_subset) - 1) : \E c \in nfa_symbols(nfa) :
           dfa_get(dfa, s, c) = <<>>

\* C19: throughout the refinement loop of minimize_dfa, and at its end,
\* `partitions` holds pairwise disjoint non-empty sets whose union is the set
\* of states the input DFA mentions, and no class holds an accepting state
\* together with a non-accepting one.
C19_PartitionInvariant ==
    pc \in {"min_while", "min_for", "mindfa"} /\ min # NoLocals =>
        /\ \A i \in DOMAIN min.partitions : min.partitions[i] # {}
        /\ \A i, j \in DOMAIN min.partitions :
               i # j => min.partitions[i] \cap min.partitions[j] = {}
        /\ UNION Range(min.partitions) = all_states(dfa)
        /\ \A i \in DOMAIN min.partitions :
               min.partitions[i] \subseteq dfa.accepts
               \/ min.partitions[i] \cap dfa.accepts = {}

\* C19 witness: inside the loop over the symbols, after splits have made
\* three classes of a DFA with accepting and non-accepting states.
C19_Witness ==
    /\ pc = "min_for"
    /\ min.i > 1
    /\ Len(min.partitions) >= 3
    /\ dfa.accepts # {}
    /\ non_accepting(dfa) # {}

\* the transitions of state m with every target replaced by its class index
MemberTransitions(d, partitions, m) ==
    LET stp == state_to_partition(partitions)
        trans_map == IF m \in DOMAIN d.transitions THEN d.transitions[m] ELSE <<>>
    IN  [symbol \in {c \in DOMAIN trans_map : trans_map[c] \in DOMAIN stp}
            |-> stp[trans_map[symbol]]]

\* C20: when the work queue of minimize_dfa is empty the partition is
\* stable: for any two members p, q of a class and every symbol, neither has
\* a transition on it or both have one, into the same class; so the
\* transitions build_minimized_dfa gives a class are those of any of its
\* members, whichever is the representative.
C20_StableAtEmptyQueue ==
    pc \in {"min_while", "mindfa"} /\ min # NoLocals /\ min.work_queue = <<>> =>
        /\ \A i \in DOMAIN min.partitions : \A p, q \in min.partitions[i] :
               \A c \in dfa_symbols(dfa) \cup Alphabet :
                   LET tp == dfa_get(dfa, p, c)
                       tq == dfa_get(dfa, q, c)
                   IN  \/ tp = <<>> /\ tq = <<>>
                       \/ /\ tp # <<>> /\ tq # <<>>
                          /\ ClassOf(min.partitions, tp[1]) = ClassOf(min.partitions, tq[1])
        /\ \A i \in DOMAIN min.partitions : \A m \in min.partitions[i] :
               MemberTransitions(dfa, min.partitions, m)
                   = class_transitions(dfa, min.partitions, i)
        /\ pc = "mindfa" =>
               \A i \in DOMAIN min.partitions : \A m \in min.partitions[i] :
                   \A c \in dfa_symbols(dfa) :
                       dfa_get(mindfa, i - 1, c)
                           = (IF c \in DOMAIN MemberTransitions(dfa, min.partitions, m)
                              THEN <<MemberTransitions(dfa, min.partitions, m)[c]>> ELSE <<>>)

\* C20 witness: the queue is empty after splits, and a class with two
\* members with transitions is left, neither of which leads to itself on
\* all symbols.
C20_Witness ==
    /\ pc = "mindfa"
    /\ Len(min.partitions) > Len(initial_partitions(dfa))
    /\ \E i \in DOMAIN min.partitions :
           /\ Cardinality(min.partitions[i]) >= 2
           /\ \A m \in min.partitions[i] : Defined(dfa, m) # {}
           /\ \E m \in min.partitions[i] : \E c \in Defined(dfa, m) :
                  dfa.transitions[m][c] \notin min.partitions[i]

\* the (state, symbol) pairs of the transitions of d that lead to state j
Discoveries(d, j) ==
    {sc \in (DOMAIN d.transitions) \X dfa_symbols(d) : dfa_get(d, sc[1], sc[2]) = <<j>>}

LexLess(a, b) == a[1] < b[1] \/ (a[1] = b[1] /\ a[2] < b[2])

\* the first transition into j when the states are taken by ascending id and
\* the symbols of a state in ascending order
FirstDiscovery(d, j) ==
    CHOOSE a \in Discoveries(d, j) : \A b \in Discoveries(d, j) : a = b \/ LexLess(a, b)

\* C21: nfa_to_dfa numbers the states canonically: the start is id 0 and
\* stands for {nfa.start}; the ids are 0..n-1 without gaps; every other id is
\* first reached from a smaller id, and ids ascend with the (state, symbol)
\* of their first discovery, states taken in the order of their ids and the
\* symbols of a state in ascending character order; each transition leads to
\* the id of the subset the NFA moves to.  The DFA is thereby a function of
\* the NFA; for 0 -a-> 1, 0 -b-> 2 it has 0 -a-> 1 and 0 -b-> 2.
C21_CanonicalNumbering ==
    pc = "dfa" /\ det # NoLocals =>
        LET n == Len(det.id_to_subset)
        IN  /\ dfa.start = 0
            /\ det.id_to_subset[1] = {nfa.start}
            /\ all_states(dfa) \subseteq 0..(n - 1)
            /\ \A j \in 1..(n - 1) :
                   /\ Discoveries(dfa, j) # {}
                   /\ FirstDiscovery(dfa, j)[1] < j
            /\ \A i, j \in 1..(n - 1) :
                   i < j => LexLess(FirstDiscovery(dfa, i), FirstDiscovery(dfa, j))
            /\ \A st \in 0..(n - 1) : \A c \in nfa_symbols(nfa) :
                   LET target == dfa_target(nfa, det.id_to_subset[st + 1], c)
                   IN  IF target = {} THEN dfa_get(dfa, st, c) = <<>>
                       ELSE /\ dfa_get(dfa, st, c) # <<>>
                            /\ det.id_to_subset[dfa_get(dfa, st, c)[1] + 1] = target
            /\ dfa.accepts = {st \in 0..(n - 1) : contains_accept(nfa, det.id_to_subset[st + 1])}
            /\ dfa = nfa_to_dfa(nfa)
            /\ (/\ nfa.start = 0
                /\ Range(nfa_edges(nfa, 0)) = {<<Char(1), 1>>, <<Char(2), 2>>}
                /\ nfa_edges(nfa, 1) = <<>> /\ nfa_edges(nfa, 2) = <<>>)
               => dfa.transitions = (0 :> (1 :> 1 @@ 2 :> 2))

\* C21 witness: nfa_to_dfa has returned for the NFA 0 -a-> 1, 0 -b-> 2 with
\* accept state 1, the NFA of the test dfa_from_union.
C21_Witness ==
    /\ pc = "dfa"
    /\ det # NoLocals
    /\ nfa.start = 0
    /\ nfa.accept = <<1>>
    /\ Range(nfa_edges(nfa, 0)) = {<<Char(1), 1>>, <<Char(2), 2>>}
    /\ nfa_edges(nfa, 1) = <<>> /\ nfa_edges(nfa, 2) = <<>>
    /\ dfa.accepts = {1}

\* the key of state_map that has the id
ClosureOf(state_map, id) == CHOOSE cs \in DOMAIN state_map : state_map[cs] = id

\* C22: in remove_epsilon the ids and the closure sets correspond one to
\* one: the ids are 0..next_id-1, no two closure sets share an id, no closure
\* set (as a set) has two keys, the closure of the original start has id 0,
\* every edge leads to the one id of the closure of its move, whatever the
\* symbol or path that reaches it, and an output state is accepting iff its
\* closure set holds an original accept state.
C22_StateMapInjective ==
    pc \in {"eps_while", "nfa"} /\ eps # NoLocals =>
        /\ \A k1, k2 \in DOMAIN eps.state_map :
               /\ eps.state_map[k1] = eps.state_map[k2] => k1 = k2
               /\ Range(k1) = Range(k2) => k1 = k2
        /\ {eps.state_map[k] : k \in DOMAIN eps.state_map} = 0..(eps.next_id - 1)
        /\ DOMAIN eps.new_transitions = 0..(eps.next_id - 1)
        /\ Sorted(epsilon_closure_of_state(enfa, enfa.start)) \in DOMAIN eps.state_map
        /\ eps.state_map[Sorted(epsilon_closure_of_state(enfa, enfa.start))] = 0
        /\ \A id \in DOMAIN eps.new_transitions : \A e \in Range(eps.new_transitions[id]) :
               /\ e[2] \in 0..(eps.next_id - 1)
               /\ Range(ClosureOf(eps.state_map, e[2]))
                      = epsilon_closure_of_set(enfa,
                            move_on_char(enfa, Range(ClosureOf(eps.state_map, id)), e[1][2]))
        /\ pc = "nfa" =>
               /\ nfa.start = 0
               /\ \A id \in 0..(eps.next_id - 1) :
                      (id \in Range(nfa.accept))
                          <=> (Range(ClosureOf(eps.state_map, id)) \cap Range(enfa.accept) # {})

\* C22 witness: remove_epsilon has returned an automaton in which one state
\* is reached from two different states on two different symbols, and which
\* has an accepting and a non-accepting state.
C22_Witness ==
    /\ pc = "nfa"
    /\ eps # NoLocals
    /\ \E s1, s2 \in DOMAIN nfa.transitions :
           \E e1 \in Range(nfa.transitions[s1]) : \E e2 \in Range(nfa.transitions[s2]) :
               s1 # s2 /\ e1[1] # e2[1] /\ e1[2] = e2[2]
    /\ Range(nfa.accept) # {}
    /\ Range(nfa.accept) # DOMAIN nfa.transitions

\* C23: the fragment build returns for any node of any AST has a start state
\* id smaller than its accept state id; so has the automaton the Thompson
\* construction returns.
C23_StartBelowAccept ==
    pc = "enfa" =>
        /\ \A call \in build_calls(<<>>, ast) : call.frag.start < call.frag.accept
        /\ \A i \in DOMAIN enfa.accept : enfa.start < enfa.accept[i]
        /\ enfa.accept # <<>>

\* C23 witness: the automaton of a Concat with a Star to the left has been
\* built: its start is the start of the Star, allocated after the states of
\* the operand of the Star.
C23_Witness ==
    /\ pc = "enfa"
    /\ ast[1] = "Concat"
    /\ ast[2][1] = "Star"
    /\ enfa.start > 0
    /\ enfa.start < enfa.accept[1]

\* the states of n in the order a depth-first traversal from s first visits
\* them, the edges of each state explored in list order from edge i on;
\* seq holds the states visited so far
RECURSIVE DfsFrom(_, _, _, _)
DfsFrom(n, s, i, seq) ==
    IF i > Len(nfa_edges(n, s)) THEN seq
    ELSE LET to == nfa_edges(n, s)[i][2]
         IN  IF to \in Range(seq)
             THEN DfsFrom(n, s, i + 1, seq)
             ELSE DfsFrom(n, s, i + 1, DfsFrom(n, to, 1, Append(seq, to)))

DfsOrder(n) == DfsFrom(n, n.start, 1, <<n.start>>)

\* C24: renumber_dfs gives the start id 0 and the ids 1, 2, ... to the states
\* in the order a depth-first traversal from the start first visits them,
\* the edges of each state explored first edge first.
C24_DepthFirstNumbering ==
    pc = "renumbered" =>
        /\ DOMAIN ren.old_to_new = Range(DfsOrder(enfa))
        /\ \A k \in DOMAIN DfsOrder(enfa) : ren.old_to_new[DfsOrder(enfa)[k]] = k - 1

\* at most one outgoing edge per label in every state of n
Deterministic(n) ==
    \A s \in DOMAIN n.transitions :
        \A i, j \in DOMAIN n.transitions[s] :
            n.transitions[s][i][1] = n.transitions[s][j][1] => i = j

\* C25: the automaton remove_epsilon returns has at most one outgoing edge
\* per symbol in every state; nfa_to_dfa run on it builds singleton subsets
\* only and returns a DFA with as many states as that automaton has.
C25_OutputAlreadyDeterministic ==
    /\ pc = "nfa" /\ eps # NoLocals => Deterministic(nfa)
    /\ pc \in {"det_while", "dfa"} /\ eps # NoLocals =>
           \A i \in DOMAIN det.id_to_subset : Cardinality(det.id_to_subset[i]) = 1
    /\ pc = "dfa" /\ eps # NoLocals =>
           /\ Len(det.id_to_subset) = eps.next_id
           /\ Cardinality(all_states(dfa)) = Cardinality(NfaStates(nfa))

\* C25 witness: nfa_to_dfa has returned on the output of remove_epsilon for
\* an input where some composite state moves to two states on one symbol,
\* and the automaton has three states or more.
C25_Witness ==
    /\ pc = "dfa"
    /\ eps # NoLocals
    /\ Len(det.id_to_subset) >= 3
    /\ Cardinality(NfaStates(nfa)) >= 3
    /\ \E cs \in DOMAIN eps.state_map : \E c \in Alphabet :
           Cardinality(move_on_char(enfa, Range(cs), c)) >= 2

====
